---- MODULE Spec2Model ----
(***************************************************************************)
(* BitTrackr: CryptoPriceTracker (src/crypto_tracker.py).                  *)
(*                                                                         *)
(* The tracker fetches market data from the CoinGecko API (paid endpoint   *)
(* first when configured, free endpoint as the last attempt), appends the  *)
(* records to the SQLite table price_data, and derives analytics from the  *)
(* stored rows.                                                            *)
(*                                                                         *)
(* A nullable value (Python None, SQL NULL) is the empty tuple; a present  *)
(* value v is the one-element tuple <<v>>.                                 *)
(***************************************************************************)
EXTENDS Integers, Sequences, FiniteSets, TLC

VARIABLES
    env,         \* the process environment read by __init__
    api_key,     \* self.api_key
    api_tier,    \* self.api_tier
    base_url,    \* self.base_url
    price_data,  \* the rows of table price_data, in rowid order
    now,         \* the clock behind CURRENT_TIMESTAMP and datetime('now'), in seconds
    pc,          \* "idle", or "attempt" inside the loop of fetch_crypto_data
    try_order,   \* fetch_crypto_data: the attempt list
    attempt,     \* fetch_crypto_data: index of the next attempt in try_order
    requests,    \* the GET requests issued by the current (or last) fetch call,
                 \* each with what requests.get produced for it
    last_error,  \* fetch_crypto_data: last_error
    out          \* what the last completed call returned (or raised)

vars == <<env, api_key, api_tier, base_url, price_data, now, pc, try_order,
          attempt, requests, last_error, out>>

None == <<>>
Some(v) == <<v>>
IsNone(x) == x = <<>>
Val(x) == x[1]

(***************************************************************************)
(* Bounds of the model.                                                    *)
(***************************************************************************)
MaxRows == 4        \* rows in price_data under SpecStore
MaxRecords == 2     \* records in one batch under SpecStore
MaxSecond == 1      \* seconds the clock advances within one day
MaxDay == 2         \* days the clock advances
MaxDays == 1        \* largest `days` argument of a windowed query
MaxWindowRows == 3  \* rows in price_data under SpecWindow
MaxWindowRecords == 2  \* records in one batch under SpecWindow
MaxVolRows == 7     \* rows in price_data under SpecVol
MaxBatch == 22      \* assets in one market list under SpecRank
MaxRankRows == 44   \* rows in price_data under SpecRank
MaxFaulty == 3      \* records in one batch under SpecBatch
MaxBatchRows == 3   \* rows in price_data under SpecBatch
MaxReportRows == 3  \* rows in price_data under SpecReport
MaxLogRows == 2     \* rows in price_data under SpecLog
MaxLogRecords == 2  \* records in one batch under SpecLog

(***************************************************************************)
(* Construction: __init__ reads the environment.                           *)
(***************************************************************************)
FreeBase == "https://api.coingecko.com/api/v3"
ProBase == "https://pro-api.coingecko.com/api/v3"
ProxyBase == "https://proxy.example.com/api/v3"
ProMirrorBase == "https://pro-api.example.com/api/v3"

KeyEnv == {None, Some(""), Some("CG-key")}
TierEnv == {None, Some("pro"), Some(" PRO "), Some("free")}
BaseEnv == {None, Some(""), Some(FreeBase), Some(ProBase), Some(ProxyBase),
            Some(ProMirrorBase)}

\* os.getenv(name, default)
GetEnv(e, name, default) == IF IsNone(e[name]) THEN default ELSE Val(e[name])

\* str.strip().lower() on the tier selector values
StripLower(s) ==
    CASE s = " PRO " -> "pro"
      [] OTHER -> s

\* 'pro-api' in url
ContainsProApi(url) == url \in {ProBase, ProMirrorBase}

\* truth value of an optional string: None and "" are falsy
Truthy(x) == ~IsNone(x) /\ Val(x) # ""

InitApiKey(e) == e.COINGECKO_API_KEY

InitApiTier(e) == StripLower(GetEnv(e, "COINGECKO_API_TIER", ""))

InitBaseUrl(e) ==
    IF Truthy(e.COINGECKO_API_BASE_URL)
    THEN Val(e.COINGECKO_API_BASE_URL)
    ELSE IF InitApiTier(e) = "pro" THEN ProBase ELSE FreeBase

Environments ==
    [COINGECKO_API_KEY : KeyEnv, COINGECKO_API_TIER : TierEnv,
     COINGECKO_API_BASE_URL : BaseEnv]

EmptyEnvironment ==
    [COINGECKO_API_KEY |-> None, COINGECKO_API_TIER |-> None,
     COINGECKO_API_BASE_URL |-> None]

NoCall == [op |-> "none"]

Constructed(e) ==
    /\ env = e
    /\ api_key = InitApiKey(e)
    /\ api_tier = InitApiTier(e)
    /\ base_url = InitBaseUrl(e)
    /\ price_data = <<>>
    /\ now = 0
    /\ pc = "idle"
    /\ try_order = <<>>
    /\ attempt = 1
    /\ requests = <<>>
    /\ last_error = None
    /\ out = NoCall

Init == \E e \in Environments : Constructed(e)

(***************************************************************************)
(* fetch_crypto_data                                                       *)
(***************************************************************************)
UrlPath == "/coins/markets"

BuildHeaders(key, use_pro_header) ==
    {<<"User-Agent", "Mozilla/5.0">>, <<"Accept", "application/json">>}
    \cup (IF Truthy(key)
          THEN IF use_pro_header
               THEN {<<"x-cg-pro-api-key", Val(key)>>}
               ELSE {<<"x-cg-demo-api-key", Val(key)>>}
          ELSE {})

\* a tracker that tries the paid endpoint whatever its configuration
ShouldTryProAlways(tier, base) == TRUE

ShouldTryPro(tier, base) == tier = "pro" \/ ContainsProApi(base)

\* an attempt list that tries the paid endpoint a second time before it
\* falls back
TryOrderRetryPaid(tier, base) ==
    (IF ShouldTryPro(tier, base)
     THEN <<[base_url |-> ProBase, use_pro_header |-> TRUE],
            [base_url |-> ProBase, use_pro_header |-> TRUE]>>
     ELSE <<>>)
    \o <<[base_url |-> FreeBase, use_pro_header |-> FALSE]>>

\* an attempt list whose free endpoint is only the primary, never the fallback
TryOrderNoFallback(tier, base) ==
    IF ShouldTryPro(tier, base)
    THEN <<[base_url |-> ProBase, use_pro_header |-> TRUE]>>
    ELSE <<[base_url |-> FreeBase, use_pro_header |-> FALSE]>>

TryOrder(tier, base) ==
    (IF ShouldTryPro(tier, base)
     THEN <<[base_url |-> ProBase, use_pro_header |-> TRUE]>>
     ELSE <<>>)
    \o <<[base_url |-> FreeBase, use_pro_header |-> FALSE]>>

\* What requests.get can produce: a transport error (connection error,
\* timeout), or a response with a status and a body.
Statuses == {200, 404, 503}
Bodies == {"array", "empty_array", "object", "string", "number", "null", "not_json"}
Responses ==
    {[transport_error |-> TRUE, status_code |-> 0, body |-> "not_json"]}
    \cup [transport_error : {FALSE}, status_code : Statuses, body : Bodies]

\* response.raise_for_status() raises HTTPError
RaisesForStatus(status) == 400 <= status /\ status < 600

\* response.json() raises JSONDecodeError
JsonRaises(body) == body = "not_json"

\* len(data) raises TypeError
LenRaises(body) == body \in {"number", "null"}

\* The outcome of one attempt: "error" is an exception the loop catches
\* (RequestException, JSONDecodeError), "raise" one it does not, "data" a
\* parsed body.
AttemptOutcome(resp) ==
    IF resp.transport_error THEN "error"
    ELSE IF resp.status_code >= 400 /\ RaisesForStatus(resp.status_code) THEN "error"
    ELSE IF JsonRaises(resp.body) THEN "error"
    ELSE IF LenRaises(resp.body) THEN "raise"
    ELSE "data"

FetchStart ==
    /\ pc = "idle"
    /\ pc' = "attempt"
    /\ try_order' = TryOrder(api_tier, base_url)
    /\ attempt' = 1
    /\ requests' = <<>>
    /\ last_error' = None
    /\ UNCHANGED <<env, api_key, api_tier, base_url, price_data, now, out>>

FetchAttempt ==
    /\ pc = "attempt"
    /\ attempt <= Len(try_order)
    /\ \E resp \in Responses :
        LET a == try_order[attempt]
            req == [url |-> a.base_url \o UrlPath,
                    headers |-> BuildHeaders(api_key, a.use_pro_header),
                    response |-> resp]
            outcome == AttemptOutcome(resp)
        IN  /\ requests' = Append(requests, req)
            /\ CASE outcome = "data" ->
                      /\ base_url' = a.base_url
                      /\ out' = [op |-> "fetch_crypto_data", kind |-> "data",
                                 data |-> resp.body]
                      /\ pc' = "idle"
                      /\ UNCHANGED <<attempt, last_error>>
                 [] outcome = "raise" ->
                      /\ out' = [op |-> "fetch_crypto_data", kind |-> "raise",
                                 data |-> "TypeError"]
                      /\ pc' = "idle"
                      /\ UNCHANGED <<base_url, attempt, last_error>>
                 [] outcome = "error" ->
                      /\ last_error' = Some(resp)
                      /\ attempt' = attempt + 1
                      /\ IF attempt = Len(try_order)
                         THEN /\ out' = [op |-> "fetch_crypto_data", kind |-> "none",
                                         data |-> "None"]
                              /\ pc' = "idle"
                         ELSE UNCHANGED <<out, pc>>
                      /\ UNCHANGED base_url
    /\ UNCHANGED <<env, api_key, api_tier, price_data, now, try_order>>

Next == FetchStart \/ FetchAttempt

Spec == Init /\ [][Next]_vars

(***************************************************************************)
(* store_data                                                              *)
(*                                                                         *)
(* A record of the API is a function from the keys it carries to optional  *)
(* values (None is JSON null).  A row of price_data carries the columns    *)
(* the queries read; id is the AUTOINCREMENT rowid, which is the row's     *)
(* position in price_data because rows are never deleted.                  *)
(***************************************************************************)
SecondsPerDay == 86400

\* dict.get(key, default)
Get(d, key, default) == IF key \in DOMAIN d THEN d[key] ELSE default

\* str.upper() on the symbols of the model
Upper(s) ==
    CASE s = "btc" -> "BTC"
      [] s = "eth" -> "ETH"
      [] s = "xrp" -> "XRP"
      [] OTHER -> s

\* The INSERT of one record raises: None.upper() is an AttributeError, a NULL
\* symbol, name or price_usd violates NOT NULL.
InsertRaises(d) ==
    \/ IsNone(Get(d, "symbol", Some("")))
    \/ IsNone(Get(d, "name", Some("")))
    \/ IsNone(Get(d, "current_price", Some(0)))

RowOf(d, id, ts) ==
    [id |-> id,
     symbol |-> Upper(Val(Get(d, "symbol", Some("")))),
     name |-> Val(Get(d, "name", Some(""))),
     price_usd |-> Val(Get(d, "current_price", Some(0))),
     market_cap |-> Get(d, "market_cap", Some(0)),
     percent_change_24h |-> Get(d, "price_change_percentage_24h", Some(0)),
     rank_position |-> Get(d, "market_cap_rank", Some(0)),
     timestamp |-> ts]

\* a loop that gives up at the first record whose insert raises
RECURSIVE InsertAllAbortOnError(_, _, _)
InsertAllAbortOnError(rows, batch, ts) ==
    IF batch = <<>> THEN rows
    ELSE IF InsertRaises(Head(batch)) THEN rows
    ELSE InsertAllAbortOnError(Append(rows, RowOf(Head(batch), Len(rows) + 1, ts)),
                               Tail(batch), ts)

\* the for loop of store_data: each record is inserted or, when its insert
\* raises, skipped
RECURSIVE InsertAll(_, _, _)
InsertAll(rows, batch, ts) ==
    IF batch = <<>> THEN rows
    ELSE IF InsertRaises(Head(batch)) THEN InsertAll(rows, Tail(batch), ts)
    ELSE InsertAll(Append(rows, RowOf(Head(batch), Len(rows) + 1, ts)),
                   Tail(batch), ts)

\* store_data(crypto_data) at clock reading ts: an empty or absent batch is
\* a no-op; the commit follows the loop.
StoreData(rows, batch, ts) ==
    IF batch = <<>> THEN rows ELSE InsertAll(rows, batch, ts)

StoreDataCall(batch) ==
    /\ pc = "idle"
    /\ price_data' = StoreData(price_data, batch, now)
    /\ out' = [op |-> "store_data", batch |-> batch, at |-> now,
                rows_before |-> Len(price_data)]
    /\ UNCHANGED <<env, api_key, api_tier, base_url, now, pc, try_order, attempt,
                   requests, last_error>>

\* One second passes.
Tick ==
    /\ pc = "idle"
    /\ now % SecondsPerDay < MaxSecond
    /\ now' = now + 1
    /\ UNCHANGED <<env, api_key, api_tier, base_url, price_data, pc, try_order,
                   attempt, requests, last_error, out>>

\* The clock reaches the start of the next day.
NextDay ==
    /\ pc = "idle"
    /\ now \div SecondsPerDay < MaxDay
    /\ now' = (now \div SecondsPerDay + 1) * SecondsPerDay
    /\ UNCHANGED <<env, api_key, api_tier, base_url, price_data, pc, try_order,
                   attempt, requests, last_error, out>>

(***************************************************************************)
(* Queries.  Rows that compare equal under an ORDER BY come out in an      *)
(* order SQL leaves open: tie is "asc" or "desc", the rowid order among    *)
(* them.                                                                   *)
(***************************************************************************)
TieOrders == {"asc", "desc"}

TieBefore(a, b, tie) == IF tie = "asc" THEN a.id < b.id ELSE a.id > b.id

Min(a, b) == IF a <= b THEN a ELSE b
Max(a, b) == IF a >= b THEN a ELSE b

\* df.head(n), df.tail(n), list.reverse()
HeadRows(df, n) == SubSeq(df, 1, Min(n, Len(df)))
TailRows(df, n) == SubSeq(df, Max(1, Len(df) - n + 1), Len(df))
\* a reversal that was forgotten
ReverseForgotten(s) == s

Reverse(s) == [i \in 1..Len(s) |-> s[Len(s) + 1 - i]]

RowSet(rows) == {rows[i] : i \in DOMAIN rows}

\* SELECT MAX(timestamp) FROM price_data p2 WHERE p2.symbol = sym
MaxTimestamp(rows, sym) ==
    LET ts == {rows[i].timestamp : i \in {j \in DOMAIN rows : rows[j].symbol = sym}}
    IN  CHOOSE t \in ts : \A u \in ts : u <= t

\* a subquery that keeps every row, whatever its timestamp
IsLatestAnyRow(rows, r) == TRUE

\* WHERE timestamp = (SELECT MAX(timestamp) ... WHERE p2.symbol = p1.symbol)
IsLatest(rows, r) == r.timestamp = MaxTimestamp(rows, r.symbol)

LatestRows(rows) == SelectSeq(rows, LAMBDA r : IsLatest(rows, r))

\* get_gainers_losers: the query
GainersQuery(rows, tie) ==
    SortSeq(SelectSeq(LatestRows(rows), LAMBDA r : ~IsNone(r.percent_change_24h)),
            LAMBDA a, b :
                \/ Val(a.percent_change_24h) > Val(b.percent_change_24h)
                \/ /\ Val(a.percent_change_24h) = Val(b.percent_change_24h)
                   /\ TieBefore(a, b, tie))

MoversLimit == 10

GetGainersLosers(rows, tie) ==
    LET df == GainersQuery(rows, tie)
    IN  IF df = <<>>
        THEN [df |-> df, gainers |-> <<>>, losers |-> <<>>]
        ELSE [df |-> df,
              gainers |-> HeadRows(df, MoversLimit),
              losers |-> Reverse(TailRows(df, MoversLimit))]

GetGainersLosersCall ==
    /\ pc = "idle"
    /\ \E tie \in TieOrders :
        out' = [op |-> "get_gainers_losers",
                result |-> GetGainersLosers(price_data, tie)]
    /\ UNCHANGED <<env, api_key, api_tier, base_url, price_data, now, pc,
                   try_order, attempt, requests, last_error>>

\* market_cap_analysis: the query
CapLimit == 20

\* the query without its LIMIT
CapQueryNoLimit(rows, tie) ==
    SortSeq(SelectSeq(LatestRows(rows),
                      LAMBDA r : ~IsNone(r.market_cap) /\ Val(r.market_cap) > 0),
            LAMBDA a, b :
                \/ Val(a.market_cap) > Val(b.market_cap)
                \/ /\ Val(a.market_cap) = Val(b.market_cap)
                   /\ TieBefore(a, b, tie))

CapQuery(rows, tie) ==
    HeadRows(
        SortSeq(SelectSeq(LatestRows(rows),
                          LAMBDA r : ~IsNone(r.market_cap) /\ Val(r.market_cap) > 0),
                LAMBDA a, b :
                    \/ Val(a.market_cap) > Val(b.market_cap)
                    \/ /\ Val(a.market_cap) = Val(b.market_cap)
                       /\ TieBefore(a, b, tie)),
        CapLimit)

RECURSIVE SumCaps(_)
SumCaps(df) == IF df = <<>> THEN 0 ELSE Val(Head(df).market_cap) + SumCaps(Tail(df))

TopCaps == 10

\* market_cap_analysis up to the pie chart: sizes and labels are its segments
MarketCapAnalysis(rows, tie) ==
    LET df == CapQuery(rows, tie)
        top_10 == HeadRows(df, TopCaps)
        others_cap == IF Len(df) > TopCaps
                      THEN SumCaps(SubSeq(df, TopCaps + 1, Len(df)))
                      ELSE 0
    IN  IF df = <<>>
        THEN [df |-> df, sizes |-> <<>>, labels |-> <<>>]
        ELSE [df |-> df,
              sizes |-> [i \in 1..Len(top_10) |-> Val(top_10[i].market_cap)]
                        \o (IF others_cap > 0 THEN <<others_cap>> ELSE <<>>),
              labels |-> [i \in 1..Len(top_10) |-> top_10[i].symbol]
                         \o (IF others_cap > 0 THEN <<"Others">> ELSE <<>>)]

MarketCapAnalysisCall ==
    /\ pc = "idle"
    /\ \E tie \in TieOrders :
        out' = [op |-> "market_cap_analysis",
                result |-> MarketCapAnalysis(price_data, tie)]
    /\ UNCHANGED <<env, api_key, api_tier, base_url, price_data, now, pc,
                   try_order, attempt, requests, last_error>>

\* a window whose bound is exclusive
InWindowExclusive(r, days, at) == r.timestamp > at - days * SecondsPerDay

\* timestamp >= datetime('now', '-{days} days'), evaluated at clock reading at
InWindow(r, days, at) == r.timestamp >= at - days * SecondsPerDay

\* ORDER BY rank_position: NULL sorts before every value
RankBefore(a, b) ==
    IF IsNone(a.rank_position) THEN ~IsNone(b.rank_position)
    ELSE ~IsNone(b.rank_position) /\ Val(a.rank_position) < Val(b.rank_position)

\* get_all_data(days)
GetAllData(rows, days, at, tie) ==
    SortSeq(SelectSeq(rows, LAMBDA r : InWindow(r, days, at)),
            LAMBDA a, b :
                \/ a.timestamp < b.timestamp
                \/ /\ a.timestamp = b.timestamp
                   /\ \/ RankBefore(a, b)
                      \/ /\ a.rank_position = b.rank_position
                         /\ TieBefore(a, b, tie))

\* get_price_history(symbol, days)
GetPriceHistory(rows, symbol, days, at, tie) ==
    SortSeq(SelectSeq(rows, LAMBDA r : r.symbol = Upper(symbol) /\ InWindow(r, days, at)),
            LAMBDA a, b :
                \/ a.timestamp < b.timestamp
                \/ /\ a.timestamp = b.timestamp
                   /\ TieBefore(a, b, tie))

GetAllDataCall ==
    /\ pc = "idle"
    /\ \E days \in 0..MaxDays, tie \in TieOrders :
        out' = [op |-> "get_all_data", days |-> days, at |-> now,
                result |-> GetAllData(price_data, days, now, tie)]
    /\ UNCHANGED <<env, api_key, api_tier, base_url, price_data, now, pc,
                   try_order, attempt, requests, last_error>>

QuerySymbols == {"btc", "ETH", "xrp"}

GetPriceHistoryCall ==
    /\ pc = "idle"
    /\ \E symbol \in QuerySymbols, days \in 0..MaxDays, tie \in TieOrders :
        out' = [op |-> "get_price_history", symbol |-> symbol, days |-> days,
                at |-> now,
                result |-> GetPriceHistory(price_data, symbol, days, now, tie)]
    /\ UNCHANGED <<env, api_key, api_tier, base_url, price_data, now, pc,
                   try_order, attempt, requests, last_error>>

(***************************************************************************)
(* analyze_volatility                                                      *)
(*                                                                         *)
(* The prices of the volatility model are 0, 100, 110 and 121.  The        *)
(* logarithms of the positive ones are ln(100) + k * ln(1.1), so a         *)
(* log-return is a whole number of units of ln(1.1); np.log(0) is -inf,    *)
(* and a return or a standard deviation computed from it is inf or nan.    *)
(* For n returns r with sum S, np.std(r) * np.sqrt(n) is                   *)
(* sqrt(sum((n * r_i - S)^2)) / n units: a volatility is the record        *)
(* [nan, sq, n] with sq that sum of squares.                               *)
(***************************************************************************)
LogUnits(p) ==
    CASE p = 100 -> 0
      [] p = 110 -> 1
      [] p = 121 -> 2

\* np.diff(np.log(prices)), for positive prices
Returns(prices) ==
    [i \in 1..(Len(prices) - 1) |-> LogUnits(prices[i + 1]) - LogUnits(prices[i])]

RECURSIVE SumSeq(_)
SumSeq(xs) == IF xs = <<>> THEN 0 ELSE Head(xs) + SumSeq(Tail(xs))

\* deviations taken from zero instead of from the mean
SquaredDeviationsFromZero(returns) ==
    LET n == Len(returns)
    IN  SumSeq([i \in 1..n |-> (n * returns[i]) * (n * returns[i])])

\* sum((n * r_i - S)^2): n^2 times the sum of squared deviations from the mean
SquaredDeviations(returns) ==
    LET n == Len(returns)
        S == SumSeq(returns)
    IN  SumSeq([i \in 1..n |-> (n * returns[i] - S) * (n * returns[i] - S)])

\* np.std(returns) * np.sqrt(len(returns)); nan as soon as a price is 0
Volatility(prices) ==
    IF \E i \in DOMAIN prices : prices[i] <= 0
    THEN [nan |-> TRUE, sq |-> 0, n |-> Len(prices) - 1]
    ELSE [nan |-> FALSE, sq |-> SquaredDeviations(Returns(prices)),
          n |-> Len(prices) - 1]

\* volatility a > volatility b, for two that are not nan
VolGreater(a, b) == a.sq * b.n * b.n > b.sq * a.n * a.n

\* df['symbol'].unique(): the symbols in order of first appearance
RECURSIVE Unique(_)
Unique(xs) ==
    IF xs = <<>> THEN <<>>
    ELSE LET init == Unique(SubSeq(xs, 1, Len(xs) - 1))
             last == xs[Len(xs)]
         IN  IF \E i \in DOMAIN init : init[i] = last THEN init ELSE Append(init, last)

\* sort_values('timestamp') of rows that come in timestamp order: equal
\* timestamps keep their order
RECURSIVE SortByTimestamp(_)
SortByTimestamp(rows) ==
    IF rows = <<>> THEN <<>>
    ELSE LET init == SortByTimestamp(SubSeq(rows, 1, Len(rows) - 1))
             last == rows[Len(rows)]
             keep == SelectSeq(init, LAMBDA r : r.timestamp <= last.timestamp)
             move == SelectSeq(init, LAMBDA r : r.timestamp > last.timestamp)
         IN  keep \o <<last>> \o move

RECURSIVE MaxOf(_)
MaxOf(xs) == IF Len(xs) = 1 THEN xs[1] ELSE Max(Head(xs), MaxOf(Tail(xs)))
RECURSIVE MinOf(_)
MinOf(xs) == IF Len(xs) = 1 THEN xs[1] ELSE Min(Head(xs), MinOf(Tail(xs)))

\* enough observations for a volatility, were one observation enough
EnoughObservationsOne(symbol_data) == Len(symbol_data) > 0

\* if len(symbol_data) > 1
EnoughObservations(symbol_data) == Len(symbol_data) > 1

\* the loop over the symbols: volatility_data
VolatilityData(df) ==
    LET symbols == Unique([i \in 1..Len(df) |-> df[i].symbol])
        SymbolData(sym) == SortByTimestamp(SelectSeq(df, LAMBDA r : r.symbol = sym))
        Entry(k) ==
            LET symbol_data == SymbolData(symbols[k])
                prices == [i \in 1..Len(symbol_data) |-> symbol_data[i].price_usd]
            IN  [symbol |-> symbols[k],
                 name |-> symbol_data[1].name,
                 volatility |-> Volatility(prices),
                 avg_price |-> <<SumSeq(prices), Len(prices)>>,
                 price_range |-> MaxOf(prices) - MinOf(prices),
                 ord |-> k]
    IN  SelectSeq([k \in 1..Len(symbols) |-> Entry(k)],
                  LAMBDA e : EnoughObservations(SymbolData(e.symbol)))

\* sort_values('volatility', ascending=False): nan last, equal volatilities in
\* the order of volatility_data
SortByVolatility(entries) ==
    SortSeq(entries,
            LAMBDA a, b :
                \/ ~a.volatility.nan /\ b.volatility.nan
                \/ /\ ~a.volatility.nan /\ ~b.volatility.nan
                   /\ VolGreater(a.volatility, b.volatility)
                \/ /\ a.volatility.nan = b.volatility.nan
                   /\ (a.volatility.nan
                       \/ (~VolGreater(a.volatility, b.volatility)
                           /\ ~VolGreater(b.volatility, a.volatility)))
                   /\ a.ord < b.ord)

\* analyze_volatility(days): None on an empty window, KeyError from
\* sort_values when volatility_data is empty (the frame has no columns),
\* else the sorted frame
AnalyzeVolatility(rows, days, at, tie) ==
    LET df == GetAllData(rows, days, at, tie)
        volatility_data == VolatilityData(df)
    IN  IF df = <<>> THEN [kind |-> "none", df |-> <<>>]
        ELSE IF volatility_data = <<>> THEN [kind |-> "raise", df |-> <<>>]
        ELSE [kind |-> "df", df |-> SortByVolatility(volatility_data)]

AnalyzeVolatilityCall ==
    /\ pc = "idle"
    /\ \E days \in 0..MaxDays, tie \in TieOrders :
        out' = [op |-> "analyze_volatility", days |-> days, at |-> now,
                result |-> AnalyzeVolatility(price_data, days, now, tie)]
    /\ UNCHANGED <<env, api_key, api_tier, base_url, price_data, now, pc,
                   try_order, attempt, requests, last_error>>

(***************************************************************************)
(* The store under small batches.                                          *)
(***************************************************************************)
Btc100 == [symbol |-> Some("btc"), name |-> Some("Bitcoin"), current_price |-> Some(100),
           market_cap |-> Some(900), price_change_percentage_24h |-> Some(5),
           market_cap_rank |-> Some(1)]
Btc110 == [symbol |-> Some("BTC"), name |-> Some("Bitcoin"), current_price |-> Some(110),
           market_cap |-> Some(990), price_change_percentage_24h |-> Some(5),
           market_cap_rank |-> Some(1)]
Eth50 == [symbol |-> Some("eth"), name |-> Some("Ethereum"), current_price |-> Some(50),
          market_cap |-> Some(400), price_change_percentage_24h |-> Some(-3),
          market_cap_rank |-> Some(2)]
EthNoChange == [symbol |-> Some("eth"), name |-> Some("Ethereum"),
                current_price |-> Some(45), market_cap |-> None,
                price_change_percentage_24h |-> None, market_cap_rank |-> None]
BtcNoPrice == [symbol |-> Some("btc"), name |-> Some("Bitcoin"), current_price |-> None,
               market_cap |-> Some(900), price_change_percentage_24h |-> Some(5),
               market_cap_rank |-> Some(1)]
NoSymbol == [symbol |-> None, name |-> Some("Unknown"), current_price |-> Some(1)]
OnlyPrice == [current_price |-> Some(7)]

StoreRecords == {Btc100, Btc110, Eth50, EthNoChange}

\* the batches of at most n records
RECURSIVE BatchesUpTo(_, _)
BatchesUpTo(records, n) ==
    IF n = 0 THEN {<<>>}
    ELSE LET shorter == BatchesUpTo(records, n - 1)
         IN  shorter \cup {Append(b, r) : b \in {x \in shorter : Len(x) = n - 1},
                                          r \in records}

StoreSmallBatch ==
    \E batch \in BatchesUpTo(StoreRecords, MaxRecords) :
        /\ Len(price_data) + Len(batch) <= MaxRows
        /\ StoreDataCall(batch)

InitStore == Constructed(EmptyEnvironment)

NextStore == StoreSmallBatch \/ Tick \/ GetGainersLosersCall \/ MarketCapAnalysisCall

SpecStore == InitStore /\ [][NextStore]_vars

(***************************************************************************)
(* store_data under batches with records whose insert raises.              *)
(***************************************************************************)
FaultyRecords == {Btc100, Eth50, BtcNoPrice, NoSymbol, OnlyPrice}

StoreFaultyBatch ==
    \E batch \in BatchesUpTo(FaultyRecords, MaxFaulty) :
        /\ Len(price_data) + Len(batch) <= MaxBatchRows
        /\ StoreDataCall(batch)

NextBatch == StoreFaultyBatch \/ Tick

SpecBatch == InitStore /\ [][NextBatch]_vars

(***************************************************************************)
(* The windowed queries.                                                   *)
(***************************************************************************)
WindowRecords == {Btc100, Eth50, EthNoChange}

StoreWindowBatch ==
    \E batch \in BatchesUpTo(WindowRecords, MaxWindowRecords) :
        /\ Len(price_data) + Len(batch) <= MaxWindowRows
        /\ StoreDataCall(batch)

NextWindow == StoreWindowBatch \/ NextDay \/ GetAllDataCall \/ GetPriceHistoryCall

SpecWindow == InitStore /\ [][NextWindow]_vars

(***************************************************************************)
(* Volatility over collection cycles.                                      *)
(***************************************************************************)
EthFlat == [symbol |-> Some("eth"), name |-> Some("Ethereum"), current_price |-> Some(100),
            market_cap |-> Some(400), price_change_percentage_24h |-> Some(-3),
            market_cap_rank |-> Some(2)]
XrpFree == [symbol |-> Some("xrp"), name |-> Some("XRP"), market_cap_rank |-> Some(3)]
Xrp121 == [symbol |-> Some("xrp"), name |-> Some("XRP"), current_price |-> Some(121),
           market_cap_rank |-> Some(3)]

VolBatches == {<<Btc100, EthFlat, Xrp121>>, <<Btc110, EthFlat>>, <<Btc100>>,
               <<Btc110, XrpFree>>}

StoreVolBatch ==
    \E batch \in VolBatches :
        /\ Len(price_data) + Len(batch) <= MaxVolRows
        /\ StoreDataCall(batch)

NextVol == StoreVolBatch \/ NextDay \/ AnalyzeVolatilityCall

SpecVol == InitStore /\ [][NextVol]_vars

(***************************************************************************)
(* Rankings over collection cycles of up to MaxBatch assets.  A cycle      *)
(* stores one market list; the cycles are at least a second apart.         *)
(***************************************************************************)
Universe == <<"BTC", "ETH", "USDT", "BNB", "SOL", "XRP", "USDC", "ADA", "DOGE", "TRX",
              "AVAX", "LINK", "DOT", "MATIC", "LTC", "BCH", "UNI", "ATOM", "XLM", "ETC",
              "FIL", "APT", "NEAR", "ICP">>

Markets == {"rising", "flat", "sparse"}

\* the 24h change of the i-th asset of a market list
MarketChange(market, i) ==
    CASE market = "rising" -> Some(i)
      [] market = "flat" -> Some(0)
      [] market = "sparse" -> IF i % 3 = 0 THEN None ELSE Some(2 - (i % 5))

\* the market cap of the i-th asset of a market list
MarketCap(market, i) ==
    CASE market = "rising" -> Some(i)
      [] market = "flat" -> Some(7)
      [] market = "sparse" -> IF i % 4 = 0 THEN None
                              ELSE IF i % 4 = 1 THEN Some(0) ELSE Some(100 - i)

MarketList(market, k) ==
    [i \in 1..k |->
        [symbol |-> Some(Universe[((i - 1) % Len(Universe)) + 1]),
         name |-> Some(Universe[((i - 1) % Len(Universe)) + 1]),
         current_price |-> Some(1),
         market_cap |-> MarketCap(market, i),
         price_change_percentage_24h |-> MarketChange(market, i),
         market_cap_rank |-> Some(i)]]

ListSizes == {1, MoversLimit, MoversLimit + 1, CapLimit + 1, MaxBatch}

StoreMarketList ==
    \E market \in Markets, k \in ListSizes :
        /\ Len(price_data) + k <= MaxRankRows
        /\ (price_data # <<>> => price_data[Len(price_data)].timestamp < now)
        /\ StoreDataCall(MarketList(market, k))

NextRank == StoreMarketList \/ Tick \/ GetGainersLosersCall \/ MarketCapAnalysisCall

SpecRank == InitStore /\ [][NextRank]_vars

(***************************************************************************)
(* generate_report                                                         *)
(***************************************************************************)
ReportMovers == 5
ReportVolatile == 3

\* generate_report(days): the gainers and losers it prints, then the most
\* volatile symbols.  A KeyError of analyze_volatility leaves the call, and
\* so does the AttributeError of `.empty` on the None that analyze_volatility
\* returns for an empty window.
GenerateReport(rows, days, at, tie) ==
    LET gainers_losers == GetGainersLosers(rows, tie)
        volatility_df == AnalyzeVolatility(rows, days, at, tie)
        error == CASE volatility_df.kind = "raise" -> "KeyError"
                   [] volatility_df.kind = "none" -> "AttributeError"
                   [] OTHER -> ""
    IN  [kind |-> IF error = "" THEN "done" ELSE "raise",
         error |-> error,
         gainers |-> HeadRows(gainers_losers.gainers, ReportMovers),
         losers |-> HeadRows(gainers_losers.losers, ReportMovers),
         most_volatile |-> IF error = "" THEN HeadRows(volatility_df.df, ReportVolatile)
                           ELSE <<>>]

GenerateReportCall ==
    /\ pc = "idle"
    /\ \E days \in 0..MaxDays, tie \in TieOrders :
        out' = [op |-> "generate_report", days |-> days, at |-> now,
                result |-> GenerateReport(price_data, days, now, tie)]
    /\ UNCHANGED <<env, api_key, api_tier, base_url, price_data, now, pc,
                   try_order, attempt, requests, last_error>>

(***************************************************************************)
(* Analytics on a store with few or no rows.                               *)
(***************************************************************************)
ReportBatches == {<<Btc100>>, <<Btc110, EthFlat>>, <<XrpFree>>}

StoreReportBatch ==
    \E batch \in ReportBatches :
        /\ Len(price_data) + Len(batch) <= MaxReportRows
        /\ StoreDataCall(batch)

NextReport ==
    \/ StoreReportBatch
    \/ NextDay
    \/ AnalyzeVolatilityCall
    \/ GenerateReportCall
    \/ GetGainersLosersCall

SpecReport == InitStore /\ [][NextReport]_vars

(***************************************************************************)
(* The whole tracker over one database: trackers are constructed on the    *)
(* existing database, fetch, store and run every query and analysis.       *)
(***************************************************************************)
\* a setup that creates the table anew
SetupDatabaseRecreates(rows) == <<>>

\* setup_database on a database that holds rows: CREATE TABLE IF NOT EXISTS
\* and CREATE INDEX IF NOT EXISTS leave the table as it is
SetupDatabase(rows) == rows

LogEnvironments == {EmptyEnvironment}

\* CryptoPriceTracker(db_path) on the database of an earlier tracker
ConstructOnExisting ==
    /\ pc = "idle"
    /\ \E e \in LogEnvironments :
        /\ env' = e
        /\ api_key' = InitApiKey(e)
        /\ api_tier' = InitApiTier(e)
        /\ base_url' = InitBaseUrl(e)
    /\ price_data' = SetupDatabase(price_data)
    /\ try_order' = <<>>
    /\ attempt' = 1
    /\ requests' = <<>>
    /\ last_error' = None
    /\ out' = [op |-> "__init__"]
    /\ UNCHANGED <<now, pc>>

\* store_data on fetched data that is not a list of records (a JSON object
\* iterates its keys, a JSON string its characters): crypto.get raises
\* AttributeError in the try block and again in the except block, so the
\* exception leaves store_data before the commit
StoreDataNotRecords ==
    /\ pc = "idle"
    /\ out.op = "fetch_crypto_data"
    /\ out.kind = "data"
    /\ out.data \in {"object", "string"}
    /\ price_data' = price_data
    /\ out' = [op |-> "store_data", batch |-> out.data, at |-> now,
                rows_before |-> Len(price_data)]
    /\ UNCHANGED <<env, api_key, api_tier, base_url, now, pc, try_order, attempt,
                   requests, last_error>>

LogRecords == {Btc100, EthFlat, BtcNoPrice}

StoreLogBatch ==
    \E batch \in BatchesUpTo(LogRecords, MaxLogRecords) :
        /\ Len(price_data) + Len(batch) <= MaxLogRows
        /\ StoreDataCall(batch)

InitLog == \E e \in LogEnvironments : Constructed(e)

NextLog ==
    \/ ConstructOnExisting
    \/ FetchStart
    \/ FetchAttempt
    \/ StoreLogBatch
    \/ StoreDataNotRecords
    \/ Tick
    \/ GetPriceHistoryCall
    \/ GetAllDataCall
    \/ AnalyzeVolatilityCall
    \/ GetGainersLosersCall
    \/ MarketCapAnalysisCall
    \/ GenerateReportCall

SpecLog == InitLog /\ [][NextLog]_vars

(***************************************************************************)
(* Properties of the fetch protocol.                                       *)
(***************************************************************************)
ProUrl == ProBase \o UrlPath
FreeUrl == FreeBase \o UrlPath

FetchReturned(kind) ==
    pc = "idle" /\ out.op = "fetch_crypto_data" /\ out.kind = kind

HasProHeader(req) == \E h \in req.headers : h[1] = "x-cg-pro-api-key"

\* C1: when the attempt list starts with the paid endpoint and the paid
\* attempt fails, the next request of the call goes to the free endpoint,
\* and a call that returns None has always requested the free endpoint.
C1_FreeTriedBeforeFailure ==
    /\ FetchReturned("none") =>
          /\ \E i \in DOMAIN requests : requests[i].url = FreeUrl
          /\ requests[Len(requests)].url = FreeUrl
    /\ (pc = "attempt" /\ attempt > 1 /\ requests[1].url = ProUrl) =>
          /\ attempt <= Len(try_order)
          /\ try_order[attempt].base_url = FreeBase
    /\ (FetchReturned("none") /\ requests[1].url = ProUrl) =>
          /\ Len(requests) = 2
          /\ requests[2].url = FreeUrl

C1_Witness ==
    /\ FetchReturned("none")
    /\ Len(requests) = 2
    /\ requests[1].url = ProUrl
    /\ requests[2].url = FreeUrl

NoCredentialNoTier ==
    IsNone(env.COINGECKO_API_KEY) /\ IsNone(env.COINGECKO_API_TIER)

NoPaidBaseOverride ==
    ~(Truthy(env.COINGECKO_API_BASE_URL)
      /\ ContainsProApi(Val(env.COINGECKO_API_BASE_URL)))

OnlyFreeRequested ==
    \A i \in DOMAIN requests :
        requests[i].url = FreeUrl /\ ~HasProHeader(requests[i])

\* C2 as stated: with no credential token and no tier selector, only the
\* free endpoint is requested and no request carries x-cg-pro-api-key.
C2_Original == NoCredentialNoTier => OnlyFreeRequested

\* C2 as amended: with no credential token, no tier selector and no base
\* endpoint override containing 'pro-api', only the free endpoint is
\* requested; with no credential token no request carries x-cg-pro-api-key.
C2_OnlyFreeWithoutPaidConfig ==
    /\ (NoCredentialNoTier /\ NoPaidBaseOverride) => OnlyFreeRequested
    /\ IsNone(env.COINGECKO_API_KEY) =>
          \A i \in DOMAIN requests : ~HasProHeader(requests[i])

C2_Witness ==
    /\ NoCredentialNoTier
    /\ NoPaidBaseOverride
    /\ Truthy(env.COINGECKO_API_BASE_URL)
    /\ FetchReturned("data")
    /\ Len(requests) = 1

\* the configuration read at construction puts the paid endpoint first: the
\* tier selector is 'pro', or the base-endpoint override contains 'pro-api'
ConfiguredPaidFirst ==
    \/ InitApiTier(env) = "pro"
    \/ /\ Truthy(env.COINGECKO_API_BASE_URL)
       /\ ContainsProApi(Val(env.COINGECKO_API_BASE_URL))

\* C13: for a tracker whose configuration at construction put the paid
\* endpoint first, the attempt list of every fetch_crypto_data call starts
\* with the paid endpoint and the first request of every call goes to it,
\* whatever earlier calls returned.
C13_PaidFirstInEveryCall ==
    ConfiguredPaidFirst =>
        /\ pc = "attempt" => try_order[1].base_url = ProBase
        /\ requests # <<>> => requests[1].url = ProUrl

Outcome(i) == AttemptOutcome(requests[i].response)

\* C14: within one fetch_crypto_data call there are at most 2 requests, no
\* endpoint is requested twice, the paid endpoint is never requested after
\* the free one, every request that is followed by another one failed, and a
\* call that returns data returns the parsed body of its last request.
C14_NoRetryNoRequestAfterSuccess ==
    /\ Len(requests) <= 2
    /\ \A i, j \in DOMAIN requests : i # j => requests[i].url # requests[j].url
    /\ \A i, j \in DOMAIN requests :
           i < j => ~(requests[i].url = FreeUrl /\ requests[j].url = ProUrl)
    /\ \A i \in DOMAIN requests : i < Len(requests) => Outcome(i) = "error"
    /\ (pc = "attempt" /\ requests # <<>>) => Outcome(Len(requests)) = "error"
    /\ FetchReturned("data") =>
           /\ Outcome(Len(requests)) = "data"
           /\ out.data = requests[Len(requests)].response.body

\* the paid attempt fails, the free attempt succeeds and ends the call
C14_Witness ==
    /\ FetchReturned("data")
    /\ Len(requests) = 2
    /\ requests[1].url = ProUrl
    /\ Outcome(1) = "error"
    /\ requests[2].url = FreeUrl
    /\ out.data = "array"

\* the response is below 400 and its body is valid JSON that is not an array
NonArrayJson(resp) ==
    /\ ~resp.transport_error
    /\ resp.status_code < 400
    /\ resp.body \in {"object", "string", "number", "null"}

\* C15: fetch_crypto_data returns a list of records or None and never
\* raises; a response below 400 whose body is valid JSON but not an array
\* makes its attempt fail, so that the next attempt runs or, after the last
\* attempt, the call returns None.
C15_OnlyArraysReturned ==
    /\ (pc = "idle" /\ out.op = "fetch_crypto_data") =>
           /\ out.kind \in {"data", "none"}
           /\ out.kind = "data" => out.data \in {"array", "empty_array"}
    /\ \A i \in DOMAIN requests :
           NonArrayJson(requests[i].response) =>
               \/ i < Len(requests)
               \/ pc = "attempt"
               \/ FetchReturned("none")

(***************************************************************************)
(* Properties of the store and of the latest-per-symbol view.              *)
(***************************************************************************)
LatestViewReturned == out.op \in {"get_gainers_losers", "market_cap_analysis"}

\* C3: the latest-per-symbol view of get_gainers_losers and of
\* market_cap_analysis holds at most one row per symbol, also when two
\* stored rows of a symbol carry the same timestamp.
C3_OneRowPerSymbol ==
    LatestViewReturned =>
        \A i, j \in DOMAIN out.result.df :
            i # j => out.result.df[i].symbol # out.result.df[j].symbol

RowsOf(rows, sym) == {r \in RowSet(rows) : r.symbol = sym}

NewestOf(rows, sym) ==
    {r \in RowsOf(rows, sym) : \A q \in RowsOf(rows, sym) : q.timestamp <= r.timestamp}

StoredSymbols == {r.symbol : r \in RowSet(price_data)}

\* C4 as stated, read where no two rows of the symbol share its latest
\* timestamp: the view of get_gainers_losers returns, for every stored
\* symbol, exactly the row of the symbol that was stored last.
C4_Original ==
    out.op = "get_gainers_losers" =>
        \A sym \in StoredSymbols :
            Cardinality(NewestOf(price_data, sym)) = 1 =>
                RowsOf(out.result.df, sym) = NewestOf(price_data, sym)

\* C4 as amended: the view of get_gainers_losers returns, each once, exactly
\* the stored rows that carry their symbol's maximum timestamp and a
\* non-null 24h change, and never a row with an earlier timestamp than
\* another row of its symbol.
C4_LatestRowsReturned ==
    out.op = "get_gainers_losers" =>
        LET df == out.result.df
        IN  /\ \A r \in RowSet(df) :
                  /\ r \in RowSet(price_data)
                  /\ \A q \in RowSet(price_data) :
                         q.symbol = r.symbol => q.timestamp <= r.timestamp
            /\ \A sym \in StoredSymbols :
                  RowsOf(df, sym) =
                      {r \in NewestOf(price_data, sym) : ~IsNone(r.percent_change_24h)}
            /\ Cardinality(RowSet(df)) = Len(df)

\* the scenario of the second batch: BTC(110) before ETH, stored after
\* BTC(100) and ETH(50) at an earlier timestamp
C4_Witness ==
    /\ out.op = "get_gainers_losers"
    /\ Len(out.result.df) = 2
    /\ out.result.df[1].symbol = "BTC"
    /\ out.result.df[1].price_usd = 110
    /\ out.result.df[2].symbol = "ETH"
    /\ \E q \in RowSet(price_data) :
           /\ q.symbol = "BTC"
           /\ q.price_usd = 100
           /\ q.timestamp < out.result.df[1].timestamp
    /\ \E q \in RowSet(price_data) :
           /\ q.symbol = "ETH"
           /\ q.timestamp < out.result.df[2].timestamp

\* C10: store_data skips each record whose insert raises and inserts every
\* other record of the batch, before and after it, in order; the row count
\* grows by the number of records whose insert succeeded.
C10_PartialSuccess ==
    out.op = "store_data" =>
        LET good == SelectSeq(out.batch,
                              LAMBDA d : /\ ~IsNone(Get(d, "symbol", Some("")))
                                         /\ ~IsNone(Get(d, "name", Some("")))
                                         /\ ~IsNone(Get(d, "current_price", Some(0))))
        IN  /\ Len(price_data) = out.rows_before + Len(good)
            /\ \A k \in 1..Len(good) :
                  LET row == price_data[out.rows_before + k]
                  IN  /\ row.symbol = Upper(Val(Get(good[k], "symbol", Some(""))))
                      /\ row.price_usd = Val(Get(good[k], "current_price", Some(0)))
                      /\ row.timestamp = out.at

C10_Witness ==
    /\ out.op = "store_data"
    /\ Len(out.batch) = 3
    /\ ~InsertRaises(out.batch[1])
    /\ InsertRaises(out.batch[2])
    /\ ~InsertRaises(out.batch[3])
    /\ Len(price_data) = out.rows_before + 2

\* C11: whatever the tracker does (construction on the existing database,
\* fetch, store_data, a query, an analysis), the rows stored before the step
\* are all still there afterwards, unchanged and in their place, and a step
\* that adds rows is a store_data call.
C11_AppendOnly ==
    [][/\ Len(price_data') >= Len(price_data)
       /\ SubSeq(price_data', 1, Len(price_data)) = price_data
       /\ \A i \in DOMAIN price_data' : price_data'[i].id = i
       /\ price_data' # price_data => out'.op = "store_data"]_vars

\* a tracker was constructed on a database that holds rows of two cycles
C11_Witness ==
    /\ out.op = "__init__"
    /\ Len(price_data) >= 2
    /\ price_data[1].timestamp < price_data[Len(price_data)].timestamp

(***************************************************************************)
(* Properties of the windowed queries.                                     *)
(***************************************************************************)
WindowReturned == out.op \in {"get_all_data", "get_price_history"}

Requested(r) == out.op = "get_price_history" => r.symbol = Upper(out.symbol)

\* C5: get_all_data(D) and get_price_history(symbol, D) return no row older
\* than the clock reading of the call minus D days, return every stored row
\* (of the requested symbol) at or after that bound, each once, in ascending
\* timestamp order.
C5_WindowExact ==
    WindowReturned =>
        LET df == out.result
            bound == out.at - out.days * SecondsPerDay
        IN  /\ \A r \in RowSet(df) : r.timestamp >= bound
            /\ RowSet(df) =
                 {r \in RowSet(price_data) : r.timestamp >= bound /\ Requested(r)}
            /\ Cardinality(RowSet(df)) = Len(df)
            /\ \A i \in 1..(Len(df) - 1) : df[i].timestamp <= df[i + 1].timestamp

\* a window that leaves out an older row, keeps a row exactly on its bound
\* and a later one
C5_Witness ==
    /\ WindowReturned
    /\ out.days = 1
    /\ \E r \in RowSet(price_data) :
           Requested(r) /\ r.timestamp < out.at - out.days * SecondsPerDay
    /\ Len(out.result) >= 2
    /\ out.result[1].timestamp = out.at - out.days * SecondsPerDay
    /\ out.result[1].timestamp < out.result[Len(out.result)].timestamp

(***************************************************************************)
(* Properties of analyze_volatility.                                       *)
(***************************************************************************)
\* the stored rows inside the window of the last analyze_volatility call
WindowRows == {r \in RowSet(price_data) : r.timestamp >= out.at - out.days * SecondsPerDay}

Observations(sym) == {r \in WindowRows : r.symbol = sym}

\* a before b is a descending order of volatility, nan last
Descending(a, b) ==
    /\ a.nan => b.nan
    /\ (~a.nan /\ ~b.nan) => a.sq * b.n * b.n >= b.sq * a.n * a.n

\* C6: the symbols in the result of analyze_volatility(days) are exactly the
\* symbols with 2 or more stored observations inside the window, each once,
\* in descending order of volatility; the call returns no frame only when no
\* symbol has 2 observations.
C6_VolatilitySymbols ==
    out.op = "analyze_volatility" =>
        LET qualifying == {sym \in StoredSymbols : Cardinality(Observations(sym)) >= 2}
            df == out.result.df
        IN  /\ out.result.kind = "df" =>
                  /\ {df[i].symbol : i \in DOMAIN df} = qualifying
                  /\ Len(df) = Cardinality(qualifying)
                  /\ \A i, j \in DOMAIN df :
                         i < j => Descending(df[i].volatility, df[j].volatility)
            /\ out.result.kind # "df" => qualifying = {}

C6_Witness ==
    /\ out.op = "analyze_volatility"
    /\ out.result.kind = "df"
    /\ Len(out.result.df) >= 2
    /\ ~out.result.df[1].volatility.nan
    /\ ~out.result.df[2].volatility.nan
    /\ out.result.df[1].volatility.sq > 0
    /\ out.result.df[2].volatility.sq = 0
    /\ \E sym \in StoredSymbols : Cardinality(Observations(sym)) = 1
    /\ \E r \in RowSet(price_data) : r \notin WindowRows

\* the entries of the result whose symbol has exactly 2 observations in the
\* window, both at a positive price
TwoObservationEntries ==
    {i \in DOMAIN out.result.df :
        /\ Cardinality(Observations(out.result.df[i].symbol)) = 2
        /\ \A r \in Observations(out.result.df[i].symbol) : r.price_usd > 0}

\* the square of |ln(p1 / p0)| for the two observations of sym, in units of
\* ln(1.1)
SquaredLogRatio(sym) ==
    LET p == CHOOSE q \in Observations(sym) : TRUE
        r == CHOOSE q \in Observations(sym) : q # p
    IN  (LogUnits(r.price_usd) - LogUnits(p.price_usd))
        * (LogUnits(r.price_usd) - LogUnits(p.price_usd))

\* C7 as stated: a symbol with exactly 2 observations p0, p1 in the window is
\* reported with volatility |ln(p1 / p0)|.
C7_Original ==
    (out.op = "analyze_volatility" /\ out.result.kind = "df") =>
        \A i \in TwoObservationEntries :
            LET v == out.result.df[i].volatility
            IN  ~v.nan /\ v.n = 1 /\ v.sq = SquaredLogRatio(out.result.df[i].symbol)

\* C7 as amended: a symbol with exactly 2 observations in the window, both at
\* a positive price, is reported with volatility 0 (the standard deviation of
\* its single log-return), whatever the two prices.
C7_TwoObservationsZero ==
    (out.op = "analyze_volatility" /\ out.result.kind = "df") =>
        \A i \in TwoObservationEntries :
            LET v == out.result.df[i].volatility
            IN  ~v.nan /\ v.n = 1 /\ v.sq = 0

\* BTC observed at 100 and at 110
C7_Witness ==
    /\ out.op = "analyze_volatility"
    /\ out.result.kind = "df"
    /\ \E i \in TwoObservationEntries :
           /\ out.result.df[i].symbol = "BTC"
           /\ {r.price_usd : r \in Observations("BTC")} = {100, 110}

\* no symbol has 2 or more observations in the window of the last call
NoSymbolQualifies == \A sym \in StoredSymbols : Cardinality(Observations(sym)) < 2

\* C12: on an empty store, and on a window in which no symbol has 2 or more
\* observations, analyze_volatility and generate_report do not raise, and
\* analyze_volatility yields no frame; get_gainers_losers on an empty store
\* returns empty gainers and losers.
C12_EmptyInputNoError ==
    /\ (out.op = "analyze_volatility" /\ NoSymbolQualifies) =>
           out.result.kind = "none"
    /\ (out.op = "generate_report" /\ NoSymbolQualifies) =>
           /\ out.result.kind = "done"
           /\ out.result.most_volatile = <<>>
    /\ (out.op = "get_gainers_losers" /\ price_data = <<>>) =>
           /\ out.result.gainers = <<>>
           /\ out.result.losers = <<>>

(***************************************************************************)
(* Properties of the rankings.                                             *)
(***************************************************************************)
\* the stored rows that carry their symbol's maximum timestamp
NewestRows == {r \in RowSet(price_data) : r \in NewestOf(price_data, r.symbol)}

MoverRows == {r \in NewestRows : ~IsNone(r.percent_change_24h)}

Change(r) == Val(r.percent_change_24h)

\* C8: gainers and losers hold min(N, 10) rows each of the N rows of the
\* latest view, never more than 10 and none that is not in the view; the
\* first gainer has the maximum 24h change and the first loser the minimum;
\* gainers descend and losers ascend by 24h change, and no row left out of
\* the gainers (losers) has a larger (smaller) change than one in them.
C8_GainersLosers ==
    out.op = "get_gainers_losers" =>
        LET g == out.result.gainers
            l == out.result.losers
            view == MoverRows
            N == Cardinality(view)
        IN  /\ Len(g) = Min(N, 10) /\ Len(l) = Min(N, 10)
            /\ Len(g) <= 10 /\ Len(l) <= 10
            /\ RowSet(g) \subseteq view /\ RowSet(l) \subseteq view
            /\ Cardinality(RowSet(g)) = Len(g) /\ Cardinality(RowSet(l)) = Len(l)
            /\ N > 0 =>
                  /\ \A r \in view : Change(r) <= Change(g[1])
                  /\ \A r \in view : Change(r) >= Change(l[1])
            /\ \A i \in 1..(Len(g) - 1) : Change(g[i]) >= Change(g[i + 1])
            /\ \A i \in 1..(Len(l) - 1) : Change(l[i]) <= Change(l[i + 1])
            /\ \A r \in view \ RowSet(g) : \A x \in RowSet(g) : Change(r) <= Change(x)
            /\ \A r \in view \ RowSet(l) : \A x \in RowSet(l) : Change(r) >= Change(x)

\* more than 10 rows in the view, over older rows that are not in it
C8_Witness ==
    /\ out.op = "get_gainers_losers"
    /\ Cardinality(MoverRows) > 10
    /\ Len(out.result.gainers) = 10
    /\ Len(out.result.losers) = 10
    /\ Change(out.result.gainers[1]) > Change(out.result.gainers[10])
    /\ Change(out.result.losers[1]) < Change(out.result.losers[10])
    /\ RowSet(out.result.gainers) # RowSet(out.result.losers)
    /\ \E r \in RowSet(price_data) : r \notin NewestRows

C8_FewRowsWitness ==
    /\ out.op = "get_gainers_losers"
    /\ Cardinality(MoverRows) \in 2..9
    /\ Len(out.result.gainers) = Cardinality(MoverRows)

CapRows == {r \in NewestRows : ~IsNone(r.market_cap) /\ Val(r.market_cap) > 0}

\* the i-th largest market cap among rows
KthCap(rows, i) ==
    CHOOSE v \in {Val(r.market_cap) : r \in rows} :
        /\ Cardinality({r \in rows : Val(r.market_cap) > v}) <= i - 1
        /\ Cardinality({r \in rows : Val(r.market_cap) >= v}) >= i

RECURSIVE SumKthCaps(_, _, _)
SumKthCaps(rows, from, to) ==
    IF from > to THEN 0 ELSE KthCap(rows, from) + SumKthCaps(rows, from + 1, to)

\* C9: the breakdown has at most 11 segments: the min(N, 10) largest market
\* caps of the N latest rows with a positive market cap, in descending
\* order, and, only when N > 10, one 'Others' segment that is the sum of the
\* 11th to 20th largest.
C9_CapSegments ==
    out.op = "market_cap_analysis" =>
        LET sizes == out.result.sizes
            labels == out.result.labels
            view == CapRows
            N == Cardinality(view)
        IN  /\ Len(sizes) <= 11
            /\ Len(labels) = Len(sizes)
            /\ \A i \in 1..Min(N, 10) : sizes[i] = KthCap(view, i)
            /\ \A i \in 1..Min(N, 10) :
                   \E r \in view : r.symbol = labels[i] /\ Val(r.market_cap) = sizes[i]
            /\ N <= 10 => Len(sizes) = N
            /\ N > 10 =>
                  /\ Len(sizes) = 11
                  /\ labels[11] = "Others"
                  /\ sizes[11] = SumKthCaps(view, 11, Min(N, 20))
                  /\ sizes[11] > 0

\* more than 20 rows with a positive market cap: 'Others' leaves out the 21st
C9_Witness ==
    /\ out.op = "market_cap_analysis"
    /\ Cardinality(CapRows) > 20
    /\ Len(out.result.sizes) = 11
    /\ out.result.labels[11] = "Others"
    /\ out.result.sizes[1] > out.result.sizes[10]
    /\ \E r \in RowSet(price_data) : r \notin NewestRows

C9_NoOthersWitness ==
    /\ out.op = "market_cap_analysis"
    /\ Cardinality(CapRows) = 10
    /\ Len(out.result.sizes) = 10

====
